---- MODULE Spec2Model ----
(***************************************************************************)
(* Balance-consistency core of the expense tracker: MoneyAccount,          *)
(* Category, HiddenCategory and Transaction rows; the transaction          *)
(* endpoints (TransactionView.post, TransactionDetailView.put / patch /    *)
(* delete) with Transaction.save; the account and category endpoints; and  *)
(* the category spending report.                                           *)
(*                                                                         *)
(* Amounts and balances are DecimalFields with two fraction digits; they   *)
(* are modelled as integers counting hundredths, which is exact for the    *)
(* additions, subtractions and comparisons the code performs.              *)
(*                                                                         *)
(* No view opens a transaction.atomic block, so every Model.save() and     *)
(* Model.delete() is committed on its own (Django's autocommit): a handler *)
(* that raises after a save leaves that save in the database.              *)
(***************************************************************************)
EXTENDS Integers, FiniteSets, Sequences, TLC

\* ------------------------------------------------------------------ bounds
NumUsers == 2
NumAccounts == 2
MaxAmount == 2
MaxInitial == 2
MaxCalls == 2

Users == 1..NumUsers
AccountIds == 1..NumAccounts
CategoryIds == {1, 2}
TxIds == 1..MaxCalls

\* Request amounts: the serializer's DecimalField has no minimum, so zero and
\* negative amounts are inputs like any other.
Amounts == (0 - 1)..MaxAmount
InitialBalances == {0 - 1, 0, MaxInitial}

\* ------------------------------------------------------------------ schema
\* models.py:38-41
TRANSACTION_TYPE_CHOICES == {"income", "expense"}

\* serializers.py:47 minus read_only_fields (user) and the auto_now_add date
WritableFields == {"category", "transaction_type", "amount", "money_account"}

VARIABLES
    accounts,         \* MoneyAccount table: id -> [user, balance]
    categories,       \* Category table: id -> [category_type, user]
    transactions,     \* Transaction table: pk -> row (only existing rows)
    next_pk,          \* next auto-increment primary key of Transaction
    hidden,           \* HiddenCategory table: sequence of rows [user, category]
    workers,          \* requests in flight when handlers run concurrently
    initial_balance,  \* history: balance each account was created with
    calls,            \* history: number of requests handled
    last,             \* history: the last request, its response, the tables before it
    round_trip        \* history: set by a delete that directly follows the create of the same row

vars == <<accounts, categories, transactions, next_pk, hidden, workers,
          initial_balance, calls, last, round_trip>>

\* ------------------------------------------------------------- Transaction.save
\* Variant of Transaction_save that never checks sufficiency.
Transaction_save_unchecked(balance, transaction_type, amount) ==
    IF transaction_type = "income"
    THEN [raised |-> FALSE, balance |-> balance + amount]
    ELSE IF transaction_type = "expense"
         THEN [raised |-> FALSE, balance |-> balance - amount]
         ELSE [raised |-> FALSE, balance |-> balance]

\* Variant of Transaction_save that only checks that the balance is not
\* already negative.
Transaction_save_checks_sign(balance, transaction_type, amount) ==
    IF transaction_type = "income"
    THEN [raised |-> FALSE, balance |-> balance + amount]
    ELSE IF transaction_type = "expense"
         THEN IF balance < 0
              THEN [raised |-> TRUE, balance |-> balance]
              ELSE [raised |-> FALSE, balance |-> balance - amount]
         ELSE [raised |-> FALSE, balance |-> balance]

\* models.py:54-59: the balance arithmetic of Transaction.save on the
\* in-memory account object; raised = ValueError("Insufficient balance ...").
Transaction_save(balance, transaction_type, amount) ==
    IF transaction_type = "income"
    THEN [raised |-> FALSE, balance |-> balance + amount]
    ELSE IF transaction_type = "expense"
         THEN IF balance < amount
              THEN [raised |-> TRUE, balance |-> balance]
              ELSE [raised |-> FALSE, balance |-> balance - amount]
         ELSE [raised |-> FALSE, balance |-> balance]

\* ------------------------------------------------------------- serializer
\* A request body is a dict: a function from the supplied field names to
\* their values.  Restrict(r, S) is the body that carries only the fields S.
Restrict(r, S) == [f \in S |-> r[f]]

FullRequests ==
    [category : CategoryIds, transaction_type : TRANSACTION_TYPE_CHOICES,
     amount : Amounts, money_account : AccountIds]

\* PATCH bodies: every subset of the fields, with every value.
PartialRequests == {Restrict(r, S) : r \in FullRequests, S \in SUBSET WritableFields}

\* POST and PUT bodies: every complete body, and one body for each way of
\* leaving fields out (all of which the serializer answers alike).
SampleRequest ==
    [category |-> 1, transaction_type |-> "income", amount |-> 1, money_account |-> 1]

CompleteRequests ==
    FullRequests \cup {Restrict(SampleRequest, S) : S \in SUBSET WritableFields}

\* TransactionSerializer(...).is_valid(): every writable field is required
\* unless partial; a supplied field must be a valid choice / an existing pk.
\* (amount is a DecimalField without validators: any decimal passes.)
is_valid(db, data, partial) ==
    /\ partial \/ DOMAIN data = WritableFields
    /\ "category" \in DOMAIN data => data.category \in DOMAIN db.categories
    /\ "transaction_type" \in DOMAIN data => data.transaction_type \in TRANSACTION_TYPE_CHOICES
    /\ "money_account" \in DOMAIN data => data.money_account \in DOMAIN db.accounts

\* Variant of validated_get whose fallback for the amount is 0.
validated_get_zero_amount(data, field, default) ==
    IF field \in DOMAIN data THEN data[field]
    ELSE IF field = "amount" THEN 0 ELSE default

\* validated_data.get(field, default)
validated_get(data, field, default) ==
    IF field \in DOMAIN data THEN data[field] ELSE default

\* What a handler leaves behind: the database, the HTTP status and the
\* error the response (or the uncaught exception) carries.
Response(db, status, error) ==
    [db |-> db, status |-> status, error |-> error]

\* MoneyAccount.save() of an in-memory account object whose balance was changed.
MoneyAccount_save(db, id, balance) ==
    [db EXCEPT !.accounts[id].balance = balance]

\* Transaction row insert (which draws the next pk), update and delete.
Transaction_insert(db, row) ==
    [db EXCEPT !.transactions = [k \in DOMAIN db.transactions \cup {db.next_pk} |->
                                    IF k = db.next_pk THEN row ELSE db.transactions[k]],
               !.next_pk = db.next_pk + 1]

Transaction_update(db, pk, row) ==
    [db EXCEPT !.transactions[pk] = row]

Transaction_delete(db, pk) ==
    [db EXCEPT !.transactions = [k \in DOMAIN db.transactions \ {pk} |-> db.transactions[k]]]

\* Variant of get_object that does not filter by the requester.
get_object_any_user(db, u, pk) ==
    pk \in DOMAIN db.transactions

\* get_object_or_404(Transaction, pk=pk, user=request.user) finds a row
get_object(db, u, pk) ==
    pk \in DOMAIN db.transactions /\ db.transactions[pk].user = u

\* ------------------------------------------------------------- POST /transactions/
\* Variant of category_type_differs that accepts every category.
category_type_never_differs(db, data) == FALSE

\* views.py:224-227
category_type_differs(db, data) ==
    db.categories[data.category].category_type # data.transaction_type

TransactionView_post(db, u, data) ==
    IF ~is_valid(db, data, FALSE)
    THEN Response(db, 400, "ValidationError")
    ELSE IF category_type_differs(db, data)
    THEN Response(db, 400, "CategoryTypeMismatch")
    ELSE \* serializer.save(user=request.user) -> Transaction.objects.create -> Transaction.save
         LET saved == Transaction_save(db.accounts[data.money_account].balance,
                                       data.transaction_type, data.amount)
             row == [user |-> u, category |-> data.category,
                     transaction_type |-> data.transaction_type,
                     amount |-> data.amount, money_account |-> data.money_account]
         IN IF saved.raised
            THEN Response(db, 500, "InsufficientBalance")
            ELSE Response(Transaction_insert(
                              MoneyAccount_save(db, data.money_account, saved.balance), row),
                          201, "")

\* ------------------------------------------------------------- PUT / PATCH /transactions/pk/
\* views.py:258-261 (put), 301-304 (patch)
reverse_previous_effect(balance, old_type, old_amount) ==
    IF old_type = "income" THEN balance - old_amount
    ELSE IF old_type = "expense" THEN balance + old_amount
    ELSE balance

\* views.py:264-269 (put), 307-312 (patch); insufficient = the 400 response
apply_new_effect(balance, new_type, new_amount) ==
    IF new_type = "income"
    THEN [insufficient |-> FALSE, balance |-> balance + new_amount]
    ELSE IF new_type = "expense"
         THEN IF balance < new_amount
              THEN [insufficient |-> TRUE, balance |-> balance]
              ELSE [insufficient |-> FALSE, balance |-> balance - new_amount]
         ELSE [insufficient |-> FALSE, balance |-> balance]

\* The body shared by put (partial=False) and patch (partial=True).
\* money_account is the object cached on the transaction; new_money_account
\* is that same object when the body carries no money_account, and otherwise
\* a second object the serializer field loaded from the table (equal to the
\* first by pk when the ids agree, but with its own balance attribute).
update_transaction(db, u, pk, data, partial) ==
    IF ~get_object(db, u, pk)
    THEN Response(db, 404, "NotFound")
    ELSE
    LET transaction == db.transactions[pk]
        money_account == transaction.money_account
        old_amount == transaction.amount
        old_type == transaction.transaction_type
    IN
    IF ~is_valid(db, data, partial)
    THEN Response(db, 400, "ValidationError")
    ELSE
    LET new_type == validated_get(data, "transaction_type", old_type)
        new_amount == validated_get(data, "amount", old_amount)
        new_money_account == validated_get(data, "money_account", money_account)
        same_object == "money_account" \notin DOMAIN data
        reversed == reverse_previous_effect(db.accounts[money_account].balance,
                                            old_type, old_amount)
        loaded == IF same_object THEN reversed ELSE db.accounts[new_money_account].balance
        applied == apply_new_effect(loaded, new_type, new_amount)
    IN
    IF applied.insufficient
    THEN Response(db, 400, "InsufficientBalance")
    ELSE
    LET \* views.py:272-274
        db1 == IF new_money_account # money_account
               THEN MoneyAccount_save(db, money_account, reversed)
               ELSE db
        db2 == MoneyAccount_save(db1, new_money_account, applied.balance)
        \* views.py:275 serializer.save(): setattr of the supplied fields, then
        \* instance.save(), which is Transaction.save on instance.money_account
        saved == Transaction_save(applied.balance, new_type, new_amount)
        row == [user |-> transaction.user,
                category |-> validated_get(data, "category", transaction.category),
                transaction_type |-> new_type,
                amount |-> new_amount,
                money_account |-> new_money_account]
    IN
    IF saved.raised
    THEN Response(db2, 500, "InsufficientBalance")
    ELSE Response(Transaction_update(
                      MoneyAccount_save(db2, new_money_account, saved.balance), pk, row),
                  200, "")

TransactionDetailView_put(db, u, pk, data) == update_transaction(db, u, pk, data, FALSE)

\* Variant of TransactionDetailView_patch that compares the resulting type with
\* the resulting category's type, as the create does.
TransactionDetailView_patch_revalidates(db, u, pk, data) ==
    IF /\ get_object(db, u, pk)
       /\ is_valid(db, data, TRUE)
       /\ db.categories[validated_get(data, "category", db.transactions[pk].category)]
              .category_type
          # validated_get(data, "transaction_type", db.transactions[pk].transaction_type)
    THEN Response(db, 400, "CategoryTypeMismatch")
    ELSE update_transaction(db, u, pk, data, TRUE)

TransactionDetailView_patch(db, u, pk, data) == update_transaction(db, u, pk, data, TRUE)

\* ------------------------------------------------------------- DELETE /transactions/pk/
\* Variant of reverse_before_delete that reverses an expense with the wrong sign.
reverse_before_delete_wrong_sign(balance, transaction_type, amount) ==
    IF transaction_type = "income" THEN balance - amount
    ELSE IF transaction_type = "expense" THEN balance - amount
    ELSE balance

\* views.py:332-335
reverse_before_delete(balance, transaction_type, amount) ==
    IF transaction_type = "income" THEN balance - amount
    ELSE IF transaction_type = "expense" THEN balance + amount
    ELSE balance

\* Variant of TransactionDetailView_delete that re-checks sufficiency before
\* reversing an income.
TransactionDetailView_delete_rechecks(db, u, pk) ==
    IF ~get_object(db, u, pk)
    THEN Response(db, 404, "NotFound")
    ELSE
    LET transaction == db.transactions[pk]
        money_account == transaction.money_account
        balance == db.accounts[money_account].balance
        reversed == reverse_before_delete(balance, transaction.transaction_type,
                                          transaction.amount)
    IN IF transaction.transaction_type = "income" /\ balance < transaction.amount
       THEN Response(db, 400, "InsufficientBalance")
       ELSE Response(Transaction_delete(MoneyAccount_save(db, money_account, reversed), pk),
                     204, "")

TransactionDetailView_delete(db, u, pk) ==
    IF ~get_object(db, u, pk)
    THEN Response(db, 404, "NotFound")
    ELSE
    LET transaction == db.transactions[pk]
        money_account == transaction.money_account
        reversed == reverse_before_delete(db.accounts[money_account].balance,
                                          transaction.transaction_type, transaction.amount)
    IN Response(Transaction_delete(MoneyAccount_save(db, money_account, reversed), pk),
                204, "")

\* ------------------------------------------------------------- state machine
NoRequest == << >>

\* The database as the handlers see it.
Database ==
    [accounts |-> accounts, categories |-> categories,
     transactions |-> transactions, next_pk |-> next_pk, hidden |-> hidden]

\* Owner of the accounts that exist from the start: accounts are dealt to the
\* users in turn.
AccountUser(a) == ((a - 1) % NumUsers) + 1

\* Two global categories, one of each type.
CategoryType(c) == IF c = 1 THEN "income" ELSE "expense"

Init ==
    /\ accounts \in [AccountIds -> [user : Users, balance : InitialBalances]]
    /\ \A a \in AccountIds : accounts[a].user = AccountUser(a)
    /\ categories = [c \in CategoryIds |-> [category_type |-> CategoryType(c), user |-> 0]]
    /\ transactions = << >>
    /\ next_pk = 1
    /\ hidden = << >>
    /\ workers = << >>
    /\ initial_balance = [a \in AccountIds |-> accounts[a].balance]
    /\ calls = 0
    /\ last = [op |-> "none", method |-> "", user |-> 0, pk |-> 0, data |-> NoRequest,
               status |-> 0, error |-> "", db |-> Database]
    /\ round_trip = [active |-> FALSE, accounts |-> accounts]

\* Commit a handler's outcome and record the request in the history.
Handle(op, method, u, pk, data, r) ==
    /\ calls' = calls + 1
    /\ accounts' = r.db.accounts
    /\ categories' = r.db.categories
    /\ transactions' = r.db.transactions
    /\ next_pk' = r.db.next_pk
    /\ hidden' = r.db.hidden
    /\ last' = [op |-> op, method |-> method, user |-> u, pk |-> pk, data |-> data,
                status |-> r.status, error |-> r.error, db |-> Database]
    /\ round_trip' = IF op = "delete" /\ r.status = 204 /\ last.op = "create"
                        /\ last.status = 201 /\ last.pk = pk
                     THEN [active |-> TRUE, accounts |-> last.db.accounts]
                     ELSE [active |-> FALSE, accounts |-> r.db.accounts]
    /\ UNCHANGED <<initial_balance, workers>>

\* The lookup answers 404 before the body is read, so the empty body stands
\* for every body there.
BodiesFor(u, pk, bodies) == IF get_object(Database, u, pk) THEN bodies ELSE {NoRequest}

CreateTransaction ==
    /\ calls < MaxCalls
    /\ \E u \in Users, data \in CompleteRequests :
        Handle("create", "POST", u, next_pk, data, TransactionView_post(Database, u, data))

PutTransaction ==
    /\ calls < MaxCalls
    /\ \E u \in Users, pk \in TxIds :
        \E data \in BodiesFor(u, pk, CompleteRequests) :
            Handle("update", "PUT", u, pk, data,
                   TransactionDetailView_put(Database, u, pk, data))

PatchTransaction ==
    /\ calls < MaxCalls
    /\ \E u \in Users, pk \in TxIds :
        \E data \in BodiesFor(u, pk, PartialRequests) :
            Handle("update", "PATCH", u, pk, data,
                   TransactionDetailView_patch(Database, u, pk, data))

DeleteTransaction ==
    /\ calls < MaxCalls
    /\ \E u \in Users, pk \in TxIds :
        Handle("delete", "DELETE", u, pk, NoRequest,
               TransactionDetailView_delete(Database, u, pk))

Next ==
    \/ CreateTransaction
    \/ PutTransaction
    \/ PatchTransaction
    \/ DeleteTransaction

Spec == Init /\ [][Next]_vars

\* ------------------------------------------------------------- properties
\* The signed effect of a transaction on its account.
Effect(transaction_type, amount) ==
    IF transaction_type = "income" THEN amount ELSE 0 - amount

RECURSIVE SumEffects(_, _)
SumEffects(txs, pks) ==
    IF pks = {} THEN 0
    ELSE LET pk == CHOOSE k \in pks : TRUE
         IN Effect(txs[pk].transaction_type, txs[pk].amount) + SumEffects(txs, pks \ {pk})

\* Sum of the signed effects of the existing transactions that reference account a.
LedgerSum(a) ==
    SumEffects(transactions, {pk \in DOMAIN transactions : transactions[pk].money_account = a})

\* The last request was an update (PUT or PATCH) that found its row.
UpdateRan == last.op = "update" /\ get_object(last.db, last.user, last.pk)

OldRow == last.db.transactions[last.pk]

\* The effective new values of the last update: supplied, or else stored.
NewType == validated_get(last.data, "transaction_type", OldRow.transaction_type)
NewAmount == validated_get(last.data, "amount", OldRow.amount)
NewAccount == validated_get(last.data, "money_account", OldRow.money_account)

BalancesUnchangedExcept(S) ==
    \A a \in AccountIds \ S : accounts[a].balance = last.db.accounts[a].balance

DatabaseUnchanged ==
    /\ accounts = last.db.accounts
    /\ transactions = last.db.transactions

\* C1: every account's stored balance equals its initial balance plus the
\* income amounts minus the expense amounts of the existing transactions that
\* reference it, after any sequence of create / update / delete calls.
BalanceInvariant ==
    \A a \in AccountIds : accounts[a].balance = initial_balance[a] + LedgerSum(a)

\* C4: an update that fails because the new expense cannot be covered changes
\* no persisted state.
FailedUpdateChangesNothing ==
    (UpdateRan /\ last.error = "InsufficientBalance") => DatabaseUnchanged

\* C5: a successful update that keeps the transaction on its account leaves the
\* balance at (balance before - old signed effect + new signed effect).
SameAccountUpdate ==
    (UpdateRan /\ last.status = 200 /\ NewAccount = OldRow.money_account) =>
        /\ accounts[NewAccount].balance =
               last.db.accounts[NewAccount].balance
               - Effect(OldRow.transaction_type, OldRow.amount)
               + Effect(NewType, NewAmount)
        /\ BalancesUnchangedExcept({NewAccount})

\* C6: a successful update that moves the transaction from account A to a
\* different account B removes the old signed effect from A, adds the new
\* signed effect to B once, and leaves every other balance alone.
MoveAccountUpdate ==
    (UpdateRan /\ last.status = 200 /\ NewAccount # OldRow.money_account) =>
        /\ accounts[OldRow.money_account].balance =
               last.db.accounts[OldRow.money_account].balance
               - Effect(OldRow.transaction_type, OldRow.amount)
        /\ accounts[NewAccount].balance =
               last.db.accounts[NewAccount].balance + Effect(NewType, NewAmount)
        /\ BalancesUnchangedExcept({OldRow.money_account, NewAccount})

\* C10: every existing transaction has a strictly positive amount, and a
\* create or update whose amount is zero or negative is rejected with
\* ValidationError and changes nothing.
AmountsStrictlyPositive ==
    /\ \A pk \in DOMAIN transactions : transactions[pk].amount > 0
    /\ ( /\ last.op = "create" \/ UpdateRan
         /\ "amount" \in DOMAIN last.data
         /\ last.data.amount <= 0 )
       => (last.error = "ValidationError" /\ DatabaseUnchanged)

\* The last request was a well-formed POST.
CreateRan == last.op = "create" /\ is_valid(last.db, last.data, FALSE)

\* C2: a successful create followed directly by the delete of the created
\* transaction leaves every account's balance as it was before the create.
CreateThenDeleteRestores ==
    round_trip.active =>
        \A a \in AccountIds : accounts[a].balance = round_trip.accounts[a].balance

\* Witness C2: such a round trip happened, and the create had changed a balance.
CreateThenDeleteHappened ==
    /\ round_trip.active
    /\ last.db.accounts # round_trip.accounts
    /\ OldRow.amount > 0

\* C3: a create of type expense on an account whose balance is less than the
\* amount fails with InsufficientBalance, creates no transaction and leaves
\* the account's persisted balance as it was.
CreateExpenseInsufficient ==
    ( /\ CreateRan
      /\ ~category_type_differs(last.db, last.data)
      /\ last.data.transaction_type = "expense"
      /\ last.db.accounts[last.data.money_account].balance < last.data.amount )
    => ( /\ last.error = "InsufficientBalance"
         /\ last.status >= 400
         /\ DatabaseUnchanged
         /\ next_pk = last.db.next_pk )

\* Witness C3: an expense larger than a non-negative balance was submitted.
CreateExpenseInsufficientHappened ==
    /\ CreateRan
    /\ ~category_type_differs(last.db, last.data)
    /\ last.data.transaction_type = "expense"
    /\ last.db.accounts[last.data.money_account].balance >= 0
    /\ last.db.accounts[last.data.money_account].balance < last.data.amount

\* The last request was a delete by the owner of an existing transaction.
DeleteRan == last.op = "delete" /\ get_object(last.db, last.user, last.pk)

\* C7: deleting an existing transaction owned by the requester always
\* succeeds, whatever the balance; afterwards the transaction is absent and
\* the account's balance has changed by the negation of its signed effect.
DeleteAlwaysReverses ==
    DeleteRan =>
        /\ last.status = 204
        /\ last.pk \notin DOMAIN transactions
        /\ \A k \in DOMAIN last.db.transactions \ {last.pk} :
               k \in DOMAIN transactions /\ transactions[k] = last.db.transactions[k]
        /\ accounts[OldRow.money_account].balance =
               last.db.accounts[OldRow.money_account].balance
               - Effect(OldRow.transaction_type, OldRow.amount)
        /\ BalancesUnchangedExcept({OldRow.money_account})

\* Witness C7: an income larger than the balance was deleted, leaving the
\* balance below zero.
DeleteIncomeBelowZeroHappened ==
    /\ DeleteRan
    /\ OldRow.transaction_type = "income"
    /\ OldRow.amount > 0
    /\ last.db.accounts[OldRow.money_account].balance < OldRow.amount
    /\ accounts[OldRow.money_account].balance < 0

\* C8: a create whose type differs from its category's type fails with
\* CategoryTypeMismatch, creates no transaction and changes no balance; so a
\* transaction's type equals its category's type when it is created.
CreateCategoryTypeMismatch ==
    /\ (CreateRan /\ category_type_differs(last.db, last.data))
       => ( /\ last.error = "CategoryTypeMismatch"
            /\ DatabaseUnchanged
            /\ next_pk = last.db.next_pk )
    /\ (last.op = "create" /\ last.status = 201)
       => ( /\ last.pk \in DOMAIN transactions
            /\ transactions[last.pk].transaction_type =
                   categories[transactions[last.pk].category].category_type )

\* Witness C8: a well-formed create with a mismatching category was submitted.
CreateCategoryTypeMismatchHappened ==
    /\ CreateRan
    /\ category_type_differs(last.db, last.data)
    /\ last.data.amount > 0

\* The PATCH body with the stored type and amount written out where omitted.
FilledPatch ==
    [f \in DOMAIN last.data \cup {"transaction_type", "amount"} |->
        IF f \in DOMAIN last.data THEN last.data[f] ELSE OldRow[f]]

\* C9: in a PATCH, each of type, amount and account that is not supplied
\* keeps its stored value in the persisted transaction, and the balance
\* computation uses the stored value for it: the balances come out as for
\* the body that spells the stored type and amount out, and with the account
\* omitted only the stored account's balance can change.
PatchOmittedFieldsKeepStoredValues ==
    (UpdateRan /\ last.method = "PATCH") =>
        /\ last.pk \in DOMAIN transactions
        /\ \A f \in {"transaction_type", "amount", "money_account"} \ DOMAIN last.data :
               transactions[last.pk][f] = OldRow[f]
        /\ LET r == TransactionDetailView_patch(last.db, last.user, last.pk, FilledPatch)
           IN accounts = r.db.accounts /\ last.status = r.status
        /\ "money_account" \notin DOMAIN last.data
               => BalancesUnchangedExcept({OldRow.money_account})

\* Witness C9: a successful PATCH that supplied only the type changed a balance.
PatchOmittedFieldsHappened ==
    /\ UpdateRan
    /\ last.method = "PATCH"
    /\ last.status = 200
    /\ DOMAIN last.data = {"transaction_type"}
    /\ last.data.transaction_type # OldRow.transaction_type
    /\ OldRow.amount > 0
    /\ accounts # last.db.accounts

\* C11: after a successful create or update whose resulting type is expense,
\* the balance of the account the expense was applied to is at least zero.
ExpenseLeavesBalanceNonNegative ==
    ( /\ last.op \in {"create", "update"}
      /\ last.status \in {200, 201}
      /\ transactions[last.pk].transaction_type = "expense" )
    => accounts[transactions[last.pk].money_account].balance >= 0

\* Witness C11: an expense of a positive amount was created or written by an
\* update, on an account that held exactly enough.
ExpenseAppliedHappened ==
    /\ last.op \in {"create", "update"}
    /\ last.status \in {200, 201}
    /\ transactions[last.pk].transaction_type = "expense"
    /\ transactions[last.pk].amount > 0
    /\ accounts[transactions[last.pk].money_account].balance = 0

\* No transaction pk exists, or the transaction pk belongs to another user.
Missing(db, u, pk) ==
    \/ pk \notin DOMAIN db.transactions
    \/ db.transactions[pk].user # u

\* C15: an update or delete of a transaction that does not exist or is not
\* owned by the requester answers NotFound and changes nothing, for every
\* requester, every pk and every body, in every reachable state.
NotFoundChangesNothing ==
    /\ \A u \in Users, pk \in TxIds :
           Missing(Database, u, pk) =>
               /\ TransactionDetailView_delete(Database, u, pk)
                      = Response(Database, 404, "NotFound")
               /\ \A data \in PartialRequests :
                      TransactionDetailView_patch(Database, u, pk, data)
                          = Response(Database, 404, "NotFound")
               /\ \A data \in CompleteRequests :
                      TransactionDetailView_put(Database, u, pk, data)
                          = Response(Database, 404, "NotFound")
    /\ ( /\ last.op \in {"update", "delete"}
         /\ Missing(last.db, last.user, last.pk) )
       => (last.error = "NotFound" /\ last.status = 404 /\ Database = last.db)

\* Witness C15: a user asked to update or delete another user's transaction.
NotOwnedRequestHappened ==
    /\ last.op \in {"update", "delete"}
    /\ last.pk \in DOMAIN last.db.transactions
    /\ last.db.transactions[last.pk].user # last.user
    /\ last.status = 404

\* ------------------------------------------------------------- accounts
\* models.py:9
ACCOUNT_TYPES == {"cash", "credit_card"}

\* serializers.py:7-8: the writable fields of MoneyAccountSerializer
AccountFields == {"name", "account_type", "currency", "balance"}

\* name and account_type have no default and are required unless partial
AccountRequiredFields == {"name", "account_type"}

\* Account bodies: every subset of the fields; the balance takes every value.
AccountRequests ==
    {Restrict(r, S) :
        r \in [name : {"wallet"}, account_type : {"cash"}, currency : {"USD"},
               balance : InitialBalances],
        S \in SUBSET AccountFields}

\* get_object_or_404(MoneyAccount, pk=pk, user=request.user) finds a row
get_account(db, u, pk) ==
    pk \in DOMAIN db.accounts /\ db.accounts[pk].user = u

account_is_valid(data, partial) ==
    /\ partial \/ AccountRequiredFields \subseteq DOMAIN data
    /\ "account_type" \in DOMAIN data => data.account_type \in ACCOUNT_TYPES

\* views.py:50-57 (put, partial=False), 63-70 (patch, partial=True).
\* serializer.save() is ModelSerializer.update: setattr of every supplied
\* field, balance among them, then MoneyAccount.save().  Of the fields only
\* the balance is kept in the model's rows.
update_account(db, u, pk, data, partial) ==
    IF ~get_account(db, u, pk)
    THEN Response(db, 404, "NotFound")
    ELSE IF ~account_is_valid(data, partial)
    THEN Response(db, 400, "ValidationError")
    ELSE Response(MoneyAccount_save(db, pk,
                      validated_get(data, "balance", db.accounts[pk].balance)),
                  200, "")

MoneyAccountView_put(db, u, pk, data) == update_account(db, u, pk, data, FALSE)

MoneyAccountView_patch(db, u, pk, data) == update_account(db, u, pk, data, TRUE)

\* Variant of cascade_transactions that leaves the transactions in place.
cascade_nothing(txs, account) == txs

\* models.py:47 on_delete=CASCADE: the transactions that survive the delete
\* of an account.
cascade_transactions(txs, account) ==
    [k \in {pk \in DOMAIN txs : txs[pk].money_account # account} |-> txs[k]]

\* views.py:75-79
MoneyAccountView_delete(db, u, pk) ==
    IF ~get_account(db, u, pk)
    THEN Response(db, 404, "NotFound")
    ELSE Response([db EXCEPT
                      !.accounts = [a \in DOMAIN db.accounts \ {pk} |-> db.accounts[a]],
                      !.transactions = cascade_transactions(db.transactions, pk)],
                  204, "")

\* ------------------------------------------------------------- categories
\* Category.user of a global (admin-provided) category: views.py:94, 138
None == 0

\* Variant of hidden_categories that takes every user's markers.
hidden_categories_all_users(db, u) ==
    {db.hidden[i].category : i \in DOMAIN db.hidden}

\* views.py:93
hidden_categories(db, u) ==
    {db.hidden[i].category : i \in {j \in DOMAIN db.hidden : db.hidden[j].user = u}}

\* Variant of CategoryView_get without the exclude().
CategoryView_get_no_exclude(db, u) ==
    {c \in DOMAIN db.categories :
        db.categories[c].user = u \/ db.categories[c].user = None}

\* views.py:87-97: the ids of the categories the list returns to u
CategoryView_get(db, u) ==
    {c \in DOMAIN db.categories :
        /\ db.categories[c].user = u \/ db.categories[c].user = None
        /\ c \notin hidden_categories(db, u)}

\* Variant of is_protected that never protects.
is_protected_never(db, pk) == FALSE

\* models.py:44 on_delete=PROTECT: a transaction references the category
is_protected(db, pk) ==
    \E k \in DOMAIN db.transactions : db.transactions[k].category = pk

\* Variant of HiddenCategory_get_or_create that always inserts.
HiddenCategory_create(rows, u, pk) ==
    Append(rows, [user |-> u, category |-> pk])

\* views.py:140 HiddenCategory.objects.get_or_create(user=..., category=...)
HiddenCategory_get_or_create(rows, u, pk) ==
    IF \E i \in DOMAIN rows : rows[i] = [user |-> u, category |-> pk]
    THEN rows
    ELSE Append(rows, [user |-> u, category |-> pk])

\* migrations/0004:20 on_delete=CASCADE: the markers that survive the delete
\* of a category.
cascade_hidden(rows, pk) ==
    LET keep(row) == row.category # pk IN SelectSeq(rows, keep)

\* views.py:126-144.  category.delete() on a category that a transaction
\* references raises ProtectedError, which the view does not catch.
CategoryDetailView_delete(db, u, pk) ==
    IF pk \notin DOMAIN db.categories
    THEN Response(db, 404, "NotFound")
    ELSE IF db.categories[pk].user = u
    THEN IF is_protected(db, pk)
         THEN Response(db, 500, "ProtectedError")
         ELSE Response([db EXCEPT
                           !.categories = [c \in DOMAIN db.categories \ {pk} |->
                                              db.categories[c]],
                           !.hidden = cascade_hidden(db.hidden, pk)],
                       204, "")
    ELSE IF db.categories[pk].user = None
    THEN Response([db EXCEPT !.hidden = HiddenCategory_get_or_create(db.hidden, u, pk)],
                  200, "")
    ELSE Response(db, 403, "Forbidden")

\* ------------------------------------------------------------- accounts and categories: state machine
NumCategories == 4

CatalogCategoryIds == 1..NumCategories

\* Categories 1 and 2 are global; the later ones are personal, dealt to the
\* users in turn.  Odd ids are income categories, even ids expense ones.
CatalogCategoryUser(c) == IF c <= 2 THEN None ELSE ((c - 3) % NumUsers) + 1

CatalogCategoryType(c) == IF c % 2 = 1 THEN "income" ELSE "expense"

\* POST bodies that can name every category.
CatalogRequests ==
    [category : CatalogCategoryIds, transaction_type : TRANSACTION_TYPE_CHOICES,
     amount : Amounts, money_account : AccountIds]

InitCatalog ==
    /\ accounts \in [AccountIds -> [user : Users, balance : InitialBalances]]
    /\ \A a \in AccountIds : accounts[a].user = AccountUser(a)
    /\ categories = [c \in CatalogCategoryIds |->
                        [category_type |-> CatalogCategoryType(c),
                         user |-> CatalogCategoryUser(c)]]
    /\ transactions = << >>
    /\ next_pk = 1
    /\ hidden = << >>
    /\ workers = << >>
    /\ initial_balance = [a \in AccountIds |-> accounts[a].balance]
    /\ calls = 0
    /\ last = [op |-> "none", method |-> "", user |-> 0, pk |-> 0, data |-> NoRequest,
               status |-> 0, error |-> "", db |-> Database]
    /\ round_trip = [active |-> FALSE, accounts |-> accounts]

CatalogCreateTransaction ==
    /\ calls < MaxCalls
    /\ \E u \in Users, data \in CatalogRequests :
        Handle("create", "POST", u, next_pk, data, TransactionView_post(Database, u, data))

\* As for transactions, the lookup answers 404 before the body is read.
AccountBodiesFor(u, pk) ==
    IF get_account(Database, u, pk) THEN AccountRequests ELSE {NoRequest}

PutAccount ==
    /\ calls < MaxCalls
    /\ \E u \in Users, pk \in AccountIds :
        \E data \in AccountBodiesFor(u, pk) :
            Handle("update_account", "PUT", u, pk, data,
                   MoneyAccountView_put(Database, u, pk, data))

PatchAccount ==
    /\ calls < MaxCalls
    /\ \E u \in Users, pk \in AccountIds :
        \E data \in AccountBodiesFor(u, pk) :
            Handle("update_account", "PATCH", u, pk, data,
                   MoneyAccountView_patch(Database, u, pk, data))

DeleteAccount ==
    /\ calls < MaxCalls
    /\ \E u \in Users, pk \in AccountIds :
        Handle("delete_account", "DELETE", u, pk, NoRequest,
               MoneyAccountView_delete(Database, u, pk))

DeleteCategory ==
    /\ calls < MaxCalls
    /\ \E u \in Users, pk \in CatalogCategoryIds :
        Handle("delete_category", "DELETE", u, pk, NoRequest,
               CategoryDetailView_delete(Database, u, pk))

NextCatalog ==
    \/ CatalogCreateTransaction
    \/ PutTransaction
    \/ PatchTransaction
    \/ DeleteTransaction
    \/ PutAccount
    \/ PatchAccount
    \/ DeleteAccount
    \/ DeleteCategory

SpecCatalog == InitCatalog /\ [][NextCatalog]_vars

\* ------------------------------------------------------------- accounts and categories: properties
DeleteCategoryRan ==
    /\ last.op = "delete_category"
    /\ last.pk \in DOMAIN last.db.categories

Markers(rows, u, c) ==
    {i \in DOMAIN rows : rows[i] = [user |-> u, category |-> c]}

\* C14: an account update (PUT or PATCH) by its owner leaves the stored
\* balance of that account as it was, whatever the body.
AccountUpdateKeepsBalance ==
    ( /\ last.op = "update_account"
      /\ get_account(last.db, last.user, last.pk) )
    => accounts[last.pk].balance = last.db.accounts[last.pk].balance

\* C16: deleting an account removes it together with every transaction that
\* references it and leaves the other transactions alone; in every state each
\* transaction references an existing account.
AccountDeleteCascades ==
    /\ \A k \in DOMAIN transactions : transactions[k].money_account \in DOMAIN accounts
    /\ ( /\ last.op = "delete_account"
         /\ get_account(last.db, last.user, last.pk) )
       => /\ last.status = 204
          /\ last.pk \notin DOMAIN accounts
          /\ DOMAIN transactions =
                {k \in DOMAIN last.db.transactions :
                    last.db.transactions[k].money_account # last.pk}
          /\ \A k \in DOMAIN transactions : transactions[k] = last.db.transactions[k]

AccountWithTransactionsDeleted ==
    /\ last.op = "delete_account"
    /\ last.status = 204
    /\ \E k \in DOMAIN last.db.transactions :
           last.db.transactions[k].money_account = last.pk

\* C17: when the owner of a category asks to delete it while a transaction
\* references it, the call fails, the category stays and the transactions are
\* as before; in every state each transaction references an existing category.
ReferencedCategoryStays ==
    /\ \A k \in DOMAIN transactions : transactions[k].category \in DOMAIN categories
    /\ ( /\ DeleteCategoryRan
         /\ last.db.categories[last.pk].user = last.user
         /\ is_protected(last.db, last.pk) )
       => /\ last.status >= 400
          /\ Database = last.db

ReferencedCategoryDeleteHappened ==
    /\ DeleteCategoryRan
    /\ last.db.categories[last.pk].user = last.user
    /\ is_protected(last.db, last.pk)
    /\ last.pk \in DOMAIN categories

\* C18 as stated: deleteCategory(u, c) removes c when c's owner is u; records
\* exactly one marker (u, c) and keeps c when c is global, also when repeated;
\* answers Forbidden and changes nothing when c belongs to another user.
CategoryDeleteOutcomesAsStated ==
    DeleteCategoryRan =>
        LET owner == last.db.categories[last.pk].user IN
        /\ owner = last.user => last.pk \notin DOMAIN categories
        /\ owner = None =>
              /\ last.status = 200
              /\ categories = last.db.categories
              /\ Cardinality(Markers(hidden, last.user, last.pk)) = 1
        /\ owner \notin {last.user, None} =>
              /\ last.error = "Forbidden"
              /\ Database = last.db

\* C18: deleteCategory(u, c) removes c when c's owner is u and no transaction
\* references c; records exactly one marker (u, c) and keeps c when c is
\* global, also when repeated; answers Forbidden and changes nothing when c
\* belongs to another user.
CategoryDeleteOutcomes ==
    DeleteCategoryRan =>
        LET owner == last.db.categories[last.pk].user IN
        /\ (owner = last.user /\ ~is_protected(last.db, last.pk)) =>
              /\ last.status = 204
              /\ last.pk \notin DOMAIN categories
        /\ owner = None =>
              /\ last.status = 200
              /\ categories = last.db.categories
              /\ Cardinality(Markers(hidden, last.user, last.pk)) = 1
        /\ owner \notin {last.user, None} =>
              /\ last.error = "Forbidden"
              /\ Database = last.db

RepeatedHideHappened ==
    /\ DeleteCategoryRan
    /\ last.status = 200
    /\ Markers(last.db.hidden, last.user, last.pk) # {}

\* C19: the category list of u is exactly the categories that u owns together
\* with the global categories for which no marker (u, c) exists.
CategoryListIsVisibleSet ==
    \A u \in Users :
        CategoryView_get(Database, u) =
            {c \in DOMAIN categories :
                \/ categories[c].user = u
                \/ /\ categories[c].user = None
                   /\ Markers(hidden, u, c) = {}}

HiddenAndOwnedCategoriesListed ==
    \E u \in Users :
        /\ \E c \in DOMAIN categories : Markers(hidden, u, c) # {}
        /\ \E c \in DOMAIN categories : categories[c].user = u
        /\ \E c \in DOMAIN categories :
               categories[c].user = None /\ c \in CategoryView_get(Database, u)

\* C20: after u hides a global category c, c is absent from u's list and the
\* list of every other user is what it was before.
HideIsPerUser ==
    ( /\ DeleteCategoryRan
      /\ last.status = 200 )
    => /\ last.pk \notin CategoryView_get(Database, last.user)
       /\ \A v \in Users \ {last.user} :
              CategoryView_get(Database, v) = CategoryView_get(last.db, v)

HideSeenByOtherUserHappened ==
    /\ DeleteCategoryRan
    /\ last.status = 200
    /\ last.pk \in CategoryView_get(last.db, last.user)
    /\ \E v \in Users \ {last.user} : last.pk \in CategoryView_get(Database, v)

\* ------------------------------------------------------------- concurrent requests
\* Requests are served by separate workers.  No view opens transaction.atomic
\* and no query uses select_for_update, so every query of a handler is a step
\* of its own and the steps of two workers interleave.
NumWorkers == 2

Workers == 1..NumWorkers

Idle ==
    [pc |-> "idle", op |-> "none", user |-> 0, pk |-> 0, data |-> NoRequest,
     row |-> NoRequest, balance |-> 0, status |-> 0, error |-> ""]

Done(worker, status, error) ==
    [worker EXCEPT !.pc = "done", !.status = status, !.error = error]

\* The database after one income of 1 was created on account 1 by its owner.
InitWorkers ==
    /\ initial_balance \in [AccountIds -> InitialBalances]
    /\ accounts = [a \in AccountIds |->
                      [user |-> AccountUser(a),
                       balance |-> IF a = 1 THEN initial_balance[a] + 1
                                   ELSE initial_balance[a]]]
    /\ categories = [c \in CategoryIds |-> [category_type |-> CategoryType(c), user |-> None]]
    /\ transactions = <<[user |-> AccountUser(1), category |-> 1,
                         transaction_type |-> "income", amount |-> 1,
                         money_account |-> 1]>>
    /\ next_pk = 2
    /\ hidden = << >>
    /\ workers = [w \in Workers |-> Idle]
    /\ calls = 0
    /\ last = [op |-> "none", method |-> "", user |-> 0, pk |-> 0, data |-> NoRequest,
               status |-> 0, error |-> "", db |-> Database]
    /\ round_trip = [active |-> FALSE, accounts |-> accounts]

WorkerUnchanged == UNCHANGED <<categories, hidden, initial_balance, calls, last, round_trip>>

\* views.py:221-229: is_valid loads the category and the account named by the
\* body; the category type check reads the loaded category.
WorkerPost(w) ==
    /\ workers[w].pc = "idle"
    /\ \E u \in Users, data \in FullRequests :
        LET begun == [Idle EXCEPT !.op = "create", !.user = u, !.data = data] IN
        workers' = [workers EXCEPT ![w] =
            IF ~is_valid(Database, data, FALSE)
            THEN Done(begun, 400, "ValidationError")
            ELSE IF category_type_differs(Database, data)
            THEN Done(begun, 400, "CategoryTypeMismatch")
            ELSE [begun EXCEPT !.pc = "loaded",
                               !.balance = accounts[data.money_account].balance]]
    /\ UNCHANGED <<accounts, transactions, next_pk>>
    /\ WorkerUnchanged

\* views.py:326: get_object_or_404(Transaction, pk=pk, user=request.user)
WorkerDelete(w) ==
    /\ workers[w].pc = "idle"
    /\ \E u \in Users, pk \in TxIds :
        LET begun == [Idle EXCEPT !.op = "delete", !.user = u, !.pk = pk] IN
        workers' = [workers EXCEPT ![w] =
            IF ~get_object(Database, u, pk)
            THEN Done(begun, 404, "NotFound")
            ELSE [begun EXCEPT !.pc = "loaded_transaction", !.row = transactions[pk]]]
    /\ UNCHANGED <<accounts, transactions, next_pk>>
    /\ WorkerUnchanged

\* views.py:329: money_account = transaction.money_account reads the account
WorkerLoadAccount(w) ==
    /\ workers[w].pc = "loaded_transaction"
    /\ workers' = [workers EXCEPT ![w].pc = "loaded",
                                  ![w].balance = accounts[workers[w].row.money_account].balance]
    /\ UNCHANGED <<accounts, transactions, next_pk>>
    /\ WorkerUnchanged

\* models.py:50-61 (create) and views.py:332-337 (delete): the new balance is
\* computed from the balance the worker loaded, then money_account.save()
\* writes it.
WorkerSaveAccount(w) ==
    /\ workers[w].pc = "loaded"
    /\ LET worker == workers[w]
           saved == Transaction_save(worker.balance, worker.data.transaction_type,
                                     worker.data.amount)
       IN IF worker.op = "create"
          THEN IF saved.raised
               THEN /\ workers' = [workers EXCEPT ![w] = Done(worker, 500, "InsufficientBalance")]
                    /\ UNCHANGED accounts
               ELSE /\ workers' = [workers EXCEPT ![w].pc = "saved_account"]
                    /\ accounts' = MoneyAccount_save(Database, worker.data.money_account,
                                                     saved.balance).accounts
          ELSE /\ workers' = [workers EXCEPT ![w].pc = "saved_account"]
               /\ accounts' = MoneyAccount_save(Database, worker.row.money_account,
                                  reverse_before_delete(worker.balance,
                                      worker.row.transaction_type,
                                      worker.row.amount)).accounts
    /\ UNCHANGED <<transactions, next_pk>>
    /\ WorkerUnchanged

\* models.py:62 (INSERT of the transaction) and views.py:338 (DELETE of it)
WorkerWriteRow(w) ==
    /\ workers[w].pc = "saved_account"
    /\ LET worker == workers[w]
           row == [user |-> worker.user, category |-> worker.data.category,
                   transaction_type |-> worker.data.transaction_type,
                   amount |-> worker.data.amount,
                   money_account |-> worker.data.money_account]
       IN IF worker.op = "create"
          THEN /\ transactions' = Transaction_insert(Database, row).transactions
               /\ next_pk' = next_pk + 1
               /\ workers' = [workers EXCEPT ![w] = Done([worker EXCEPT !.pk = next_pk], 201, "")]
          ELSE /\ transactions' = Transaction_delete(Database, worker.pk).transactions
               /\ UNCHANGED next_pk
               /\ workers' = [workers EXCEPT ![w] = Done(worker, 204, "")]
    /\ UNCHANGED accounts
    /\ WorkerUnchanged

\* The storage call of models.py:62 or views.py:338 raises (the connection is
\* lost, the row is locked, ...): the request ends with an error after the
\* account was saved.
StorageFailure(w) ==
    /\ workers[w].pc = "saved_account"
    /\ workers' = [workers EXCEPT ![w] = Done(workers[w], 500, "StorageError")]
    /\ UNCHANGED <<accounts, transactions, next_pk>>
    /\ WorkerUnchanged

NextWorkers ==
    \E w \in Workers :
        \/ WorkerPost(w)
        \/ WorkerDelete(w)
        \/ WorkerLoadAccount(w)
        \/ WorkerSaveAccount(w)
        \/ WorkerWriteRow(w)
        \/ StorageFailure(w)

SpecWorkers == InitWorkers /\ [][NextWorkers]_vars

\* The database after the request of worker w is served alone on db.
ServedAlone(db, w) ==
    IF workers[w].op = "create"
    THEN TransactionView_post(db, workers[w].user, workers[w].data).db
    ELSE TransactionDetailView_delete(db, workers[w].user, workers[w].pk).db

Balances(db) == [a \in DOMAIN db.accounts |-> db.accounts[a].balance]

\* C12: when two requests that ran concurrently have both completed, the
\* balances are those that serving the two requests one after the other, in
\* one of the two orders, produces.
ConcurrentRequestsSerialize ==
    ( /\ \A w \in Workers : workers[w].pc = "done"
      /\ \A w \in Workers : workers[w].error # "StorageError" )
    => \/ Balances(Database) = Balances(ServedAlone(ServedAlone(last.db, 1), 2))
       \/ Balances(Database) = Balances(ServedAlone(ServedAlone(last.db, 2), 1))

\* C13: when a request ends because a storage step failed part-way, and no
\* other request ran, the stored accounts and transactions are what they were
\* before the request.
StorageFailureLeavesNothing ==
    \A w \in Workers :
        ( /\ workers[w].error = "StorageError"
          /\ \A v \in Workers \ {w} : workers[v].pc = "idle" )
        => Database = last.db

\* ------------------------------------------------------------- GET /category-spending/
RECURSIVE SumAmounts(_, _)
\* Sum('amount') over the rows pks of the table txs
SumAmounts(txs, pks) ==
    IF pks = {} THEN 0
    ELSE LET pk == CHOOSE k \in pks : TRUE
         IN txs[pk].amount + SumAmounts(txs, pks \ {pk})

\* Variant of round_half_even that drops the fraction.
round_down(n, d) == n \div d

\* round(Decimal, 2): the quotient n / d to the nearest integer, ties to the
\* even one (d > 0; \div rounds down).  With the percentage counted in
\* hundredths this is the rounding to two places.  The Decimal context keeps
\* 28 digits of category_total / total_expense, far more than two places of
\* a quotient of 12-digit amounts need, so the exact quotient is rounded here.
round_half_even(n, d) ==
    LET q == n \div d
        r == n - q * d
    IN IF 2 * r < d THEN q
       ELSE IF 2 * r > d THEN q + 1
       ELSE IF q % 2 = 0 THEN q ELSE q + 1

\* views.py:443: (category_total / total_expense * 100) if total_expense > 0
\* else 0, then round(percentage, 2) at views.py:447; in hundredths.
percentage(category_total, total_expense) ==
    IF total_expense > 0
    THEN round_half_even(category_total * 100 * 100, total_expense)
    ELSE 0

\* views.py:432-437: the rows of the queryset `transactions`
spending_rows(db, u, month) ==
    {k \in DOMAIN db.transactions :
        /\ db.transactions[k].user = u
        /\ db.transactions[k].transaction_type = "expense"
        /\ db.transactions[k].date = month}

\* views.py:428-458.  Category names are unique (models.py:27), so the
\* grouping by category__name is a grouping by category.  `categories` maps
\* each category of the response to its entry.
CategorySpendingView_get(db, u, month) ==
    LET rows == spending_rows(db, u, month)
        total_expense == SumAmounts(db.transactions, rows)
        of_category(c) == {k \in rows : db.transactions[k].category = c}
    IN [total_expense |-> total_expense,
        categories |->
            [c \in {db.transactions[k].category : k \in rows} |->
                [total_spent |-> SumAmounts(db.transactions, of_category(c)),
                 percentage |-> percentage(SumAmounts(db.transactions, of_category(c)),
                                           total_expense)]]]

\* The months a row can be dated in, and the largest table looked at.
NumMonths == 2
MaxRows == 3

Months == 1..NumMonths

\* Transaction rows with the date (models.py:48) the summary views filter on.
DatedRows ==
    [user : Users, category : CategoryIds, transaction_type : TRANSACTION_TYPE_CHOICES,
     amount : Amounts, money_account : {1}, date : Months]

\* Tables of dated rows; date is auto_now_add, so it never decreases with pk.
DatedTables ==
    {t \in UNION {[1..n -> DatedRows] : n \in 0..MaxRows} :
        \A i \in DOMAIN t, j \in DOMAIN t : i < j => t[i].date <= t[j].date}

InitSpending ==
    /\ accounts \in [AccountIds -> [user : Users, balance : {0}]]
    /\ \A a \in AccountIds : accounts[a].user = AccountUser(a)
    /\ categories = [c \in CategoryIds |-> [category_type |-> CategoryType(c), user |-> None]]
    /\ transactions \in DatedTables
    /\ next_pk = Len(transactions) + 1
    /\ hidden = << >>
    /\ workers = << >>
    /\ initial_balance = [a \in AccountIds |-> 0]
    /\ calls = 0
    /\ last = [op |-> "none", user |-> 0, month |-> 0, report |-> << >>]
    /\ round_trip = [active |-> FALSE, accounts |-> accounts]

GetCategorySpending ==
    /\ calls < MaxCalls
    /\ \E u \in Users, month \in Months :
        last' = [op |-> "category_spending", user |-> u, month |-> month,
                 report |-> CategorySpendingView_get(Database, u, month)]
    /\ calls' = calls + 1
    /\ UNCHANGED <<accounts, categories, transactions, next_pk, hidden, workers,
                   initial_balance, round_trip>>

NextSpending == GetCategorySpending

SpecSpending == InitSpending /\ [][NextSpending]_vars

\* The owner's expense rows of the month, in all or in category c.
MonthExpenses == spending_rows(Database, last.user, last.month)

MonthExpensesOf(c) == {k \in MonthExpenses : transactions[k].category = c}

Abs(n) == IF n < 0 THEN 0 - n ELSE n

\* p is the quotient 100 * 100 * part / whole rounded to an integer.
IsRounded(p, part, whole) ==
    2 * Abs(p * whole - 100 * 100 * part) <= Abs(whole)

SpendingTotalsRight ==
    /\ last.report.total_expense = SumAmounts(transactions, MonthExpenses)
    /\ DOMAIN last.report.categories = {transactions[k].category : k \in MonthExpenses}
    /\ \A c \in DOMAIN last.report.categories :
           last.report.categories[c].total_spent = SumAmounts(transactions, MonthExpensesOf(c))
    /\ SumAmounts([c \in DOMAIN last.report.categories |->
                      [amount |-> last.report.categories[c].total_spent]],
                  DOMAIN last.report.categories) = last.report.total_expense

\* C21: the category spending report of an owner and month gives the sum of
\* the owner's expenses of the month, one entry per category with such an
\* expense, each with the sum for the category; the entries add up to the
\* total; each percentage is 100 * totalSpent / totalExpense rounded to two
\* places, or 0 when the total is 0.
SpendingReportAsStated ==
    last.op = "category_spending" =>
        /\ SpendingTotalsRight
        /\ \A c \in DOMAIN last.report.categories :
               IF last.report.total_expense = 0
               THEN last.report.categories[c].percentage = 0
               ELSE IsRounded(last.report.categories[c].percentage,
                              last.report.categories[c].total_spent,
                              last.report.total_expense)

\* The same report when every amount of the table is positive.
SpendingReportOfPositiveAmounts ==
    ( /\ last.op = "category_spending"
      /\ \A k \in DOMAIN transactions : transactions[k].amount > 0 )
    => SpendingReportAsStated

\* ------------------------------------------------------------- updates: further properties
\* The last update carried a body the serializer accepts.
ValidUpdateRan ==
    /\ UpdateRan
    /\ is_valid(last.db, last.data, last.method = "PATCH")

\* What the target account of the last update holds before the call once the
\* old effect is taken back from the transaction's current account.
AvailableForUpdate ==
    IF NewAccount = OldRow.money_account
    THEN last.db.accounts[NewAccount].balance - Effect(OldRow.transaction_type, OldRow.amount)
    ELSE last.db.accounts[NewAccount].balance

\* C22: an update to an expense of amount n succeeds exactly when the target
\* account covers n after the old effect is reversed: the current account's
\* balance with the old signed effect removed, or a different account's
\* balance, is at least n.  Stated for positive old and new amounts.
UpdateExpenseChecksReversedBalance ==
    ( /\ ValidUpdateRan
      /\ NewType = "expense"
      /\ OldRow.amount > 0
      /\ NewAmount > 0 )
    => (last.status = 200 <=> AvailableForUpdate >= NewAmount)

NewCategory == validated_get(last.data, "category", OldRow.category)

\* The body of the last update with its category replaced by c.
WithCategory(c) ==
    [f \in DOMAIN last.data \cup {"category"} |->
        IF f = "category" THEN c ELSE last.data[f]]

\* C23: an update whose resulting type differs from its resulting category's
\* type is never answered with CategoryTypeMismatch: its status and the
\* balances it leaves are those of the same update naming a category of the
\* right type, and when it succeeds the mismatching type and category are
\* stored.
UpdateSkipsCategoryTypeCheck ==
    ( /\ ValidUpdateRan
      /\ last.db.categories[NewCategory].category_type # NewType )
    => /\ last.error # "CategoryTypeMismatch"
       /\ \A c \in DOMAIN last.db.categories :
              last.db.categories[c].category_type = NewType =>
                  LET twin == update_transaction(last.db, last.user, last.pk,
                                                 WithCategory(c), last.method = "PATCH")
                  IN twin.status = last.status /\ twin.db.accounts = accounts
       /\ last.status = 200 =>
              /\ transactions[last.pk].category = NewCategory
              /\ transactions[last.pk].transaction_type = NewType

UpdateStoredMismatchHappened ==
    /\ ValidUpdateRan
    /\ last.status = 200
    /\ last.db.categories[OldRow.category].category_type = OldRow.transaction_type
    /\ categories[transactions[last.pk].category].category_type
           # transactions[last.pk].transaction_type

\* ------------------------------------------------------------- ownership and sign of balances
\* C24: every transaction's account belongs to the transaction's owner, and a
\* create or update that names an account of another user is rejected and
\* changes no balance.
TransactionAccountOwnedByOwner ==
    /\ \A k \in DOMAIN transactions :
           accounts[transactions[k].money_account].user = transactions[k].user
    /\ ( /\ last.op = "create" \/ UpdateRan
         /\ "money_account" \in DOMAIN last.data
         /\ last.data.money_account \in DOMAIN last.db.accounts
         /\ last.db.accounts[last.data.money_account].user # last.user )
       => /\ last.status >= 400
          /\ accounts = last.db.accounts

\* The database after one income of 1 was created on account 1 by its owner;
\* every account began with a balance of at least zero.
InitLedger ==
    /\ initial_balance \in [AccountIds -> {b \in InitialBalances : b >= 0}]
    /\ accounts = [a \in AccountIds |->
                      [user |-> AccountUser(a),
                       balance |-> IF a = 1 THEN initial_balance[a] + 1
                                   ELSE initial_balance[a]]]
    /\ categories = [c \in CategoryIds |-> [category_type |-> CategoryType(c), user |-> None]]
    /\ transactions = <<[user |-> AccountUser(1), category |-> 1,
                         transaction_type |-> "income", amount |-> 1,
                         money_account |-> 1]>>
    /\ next_pk = 2
    /\ hidden = << >>
    /\ workers = << >>
    /\ calls = 0
    /\ last = [op |-> "none", method |-> "", user |-> 0, pk |-> 0, data |-> NoRequest,
               status |-> 0, error |-> "", db |-> Database]
    /\ round_trip = [active |-> FALSE, accounts |-> accounts]

SpecLedger == InitLedger /\ [][Next]_vars

\* No amount that is zero or negative was stored or sent in the last call.
PositiveAmountsOnly ==
    /\ \A k \in DOMAIN transactions : transactions[k].amount > 0
    /\ \A k \in DOMAIN last.db.transactions : last.db.transactions[k].amount > 0
    /\ "amount" \in DOMAIN last.data => last.data.amount > 0

\* C25: when every account began with a balance of at least zero, every
\* stored balance is at least zero after any create, update and delete calls,
\* successful or not.  Stated for calls with positive amounts.
BalancesStayNonNegative ==
    ( /\ \A a \in AccountIds : initial_balance[a] >= 0
      /\ PositiveAmountsOnly )
    => \A a \in AccountIds : accounts[a].balance >= 0

====
